---- MODULE Spec2Model ----
(***************************************************************************)
(* A model of snmp_proxy (src/snmp_proxy.cpp, src/snmp_proxy.h): the       *)
(* SNMPv2c message codec, the response cache and the front-end loop with   *)
(* its backend retry loop and the cache sweeper.                           *)
(*                                                                         *)
(* Bytes are the integers 0..255 and a std::string is a sequence of bytes. *)
(* A uint64_t is its memory image on the (little-endian) build: a tuple of *)
(* eight bytes, least significant first, so that arithmetic modulo 2^64    *)
(* is carried out digit by digit.                                          *)
(***************************************************************************)
EXTENDS Integers, Sequences, FiniteSets, TLC

VARIABLES
    char_signed,     \* the build: whether plain char is signed
    now,             \* std::time(nullptr)
    cache_,          \* SNMPProxy::cache_ : CacheKey -> CacheValue
    pc,              \* position of the thread running Start()
    packet,          \* Start: the datagram received from the client
    snmp_sequence,   \* Start: the parsed (then rewritten) request
    backend_host,    \* Start: the routing token of the request
    num_retries,     \* GetResponse: attempts made so far
    response,        \* GetResponse: the bytes received from the backend
    response_size,   \* GetResponse: their count (0: nothing received)
    result,          \* the bytes GetResponse returned
    backend_sent,    \* observer: datagrams sent to backends for this request
    client_sent,     \* observer: datagrams sent to the client for this request
    path,            \* observer: the branch GetResponse returned from
    lookup,          \* observer: what the cache lookup saw
    received,        \* observer: what each attempt received
    origin,          \* observer: the request each cache entry was stored for
    answered,        \* observer: the last insertion made for each kind of request
    num_requests,    \* client datagrams received so far
    \* the codec on its own (CodecSpec)
    called,          \* the calls made so far on the object under test
    buffer,          \* the byte range given to the constructor, and what
                     \* follows it in memory
    sequence,        \* the SNMPSequence object
    argument,        \* the string given to the mutator called last
    serialized,      \* what Serialize returned
    uint_input,      \* the uint64_t given to EncodeASN1Int
    encoded,         \* what EncodeASN1Int returned
    decoded,         \* what DecodeASN1Int returned and stored
    \* the threads and the mutex (ThreadsSpec)
    mutex_,          \* SNMPProxy::mutex_ : the thread that owns it
    thread_at,       \* the position of each thread
    lookup_key,      \* GetResponse: the key of the request
    cache_entry,     \* GetResponse: what cache_.find(key) returned
    current_time,    \* EvictStaleCacheEntries: the time read for the sweep
    sweep_entry,     \* EvictStaleCacheEntries: the entries not visited yet
    inserted,        \* observer: the last insertion made under each key
    before,          \* observer: the cache when the sweep began
    outcome          \* observer: what the lookup of the request gave

vars == <<char_signed, now, cache_, pc, packet, snmp_sequence, backend_host,
          num_retries, response, response_size, result, backend_sent,
          client_sent, path, lookup, received, origin, answered, num_requests,
          called, buffer, sequence, argument, serialized, uint_input, encoded,
          decoded, mutex_, thread_at, lookup_key, cache_entry, current_time,
          sweep_entry, inserted, before, outcome>>

\* the variables only CodecSpec and only ThreadsSpec change
codec_vars ==
    <<called, buffer, sequence, argument, serialized, uint_input, encoded,
      decoded>>

thread_vars ==
    <<mutex_, thread_at, lookup_key, cache_entry, current_time, sweep_entry,
      inserted, before, outcome>>

----------------------------------------------------------------------------
(* Program constants.                                                      *)

kSequenceType == 48
kIntegerType == 2
kStringType == 4
kSNMPv2cVersion == <<2, 1, 1>>
kGetRequestPDUType == 160
kGetNextRequestPDUType == 161
kGetResponsePDUType == 162
kGetBulkRequestPDUType == 165
kResourceUnavailableError == 13
\* sizeof(result) for the uint64_t* parameter of DecodeASN1Int
SizeofResultPointer == 8
\* sizeof(request_id_)
SizeofRequestId == 4
\* the smallest datagram the parser looks at
MinPacketSize == 7
\* bytes that must lie between the PDU tag and `end`
MinPduBytes == 5
\* '@'
AtSign == 64

(* Configuration (snmp_proxy_main.cpp), with small values.                 *)
backend_community_ == <<112>>
num_backend_retries_ == 1
cache_ttl_sec_ == 1

(* Bounds of the model.                                                    *)
MaxTime == 2
MaxRequests == 2

----------------------------------------------------------------------------
(* uint64_t arithmetic on little-endian byte images.                       *)

U64Zero == <<0, 0, 0, 0, 0, 0, 0, 0>>

\* a size_t below 2^24 converted to uint64_t
U64(n) == <<n % 256, (n \div 256) % 256, (n \div 65536) % 256, 0, 0, 0, 0, 0>>

RECURSIVE U64Carry(_, _, _)
U64Carry(a, b, i) ==
    IF i = 0 THEN 0 ELSE (a[i] + b[i] + U64Carry(a, b, i - 1)) \div 256

U64Add(a, b) ==
    LET d(i) == (a[i] + b[i] + U64Carry(a, b, i - 1)) % 256
    IN  <<d(1), d(2), d(3), d(4), d(5), d(6), d(7), d(8)>>

U64Neg(a) ==
    U64Add(<<255 - a[1], 255 - a[2], 255 - a[3], 255 - a[4],
             255 - a[5], 255 - a[6], 255 - a[7], 255 - a[8]>>, U64(1))

U64Sub(a, b) == U64Add(a, U64Neg(b))

U64Shl8(a) == <<0, a[1], a[2], a[3], a[4], a[5], a[6], a[7]>>

\* the value as a natural number when it is below 2^24, else -1
U64Small(a) ==
    IF \A i \in 4..8 : a[i] = 0 THEN a[1] + 256 * a[2] + 65536 * a[3] ELSE -1

\* a char converted to uint64_t: sign-extended where plain char is signed
CharToU64(b) ==
    IF char_signed /\ b >= 128
    THEN <<b, 255, 255, 255, 255, 255, 255, 255>>
    ELSE <<b, 0, 0, 0, 0, 0, 0, 0>>

\* the byte at a position of a buffer; positions count from 1 and the bytes
\* past the image read as 0
ByteAt(mem, p) == IF p >= 1 /\ p <= Len(mem) THEN mem[p] ELSE 0

\* the n bytes from a position on
RECURSIVE Slice(_, _, _)
Slice(mem, from, n) ==
    IF n <= 0 THEN <<>>
    ELSE IF n = 1 THEN <<ByteAt(mem, from)>>
    ELSE Slice(mem, from, n \div 2)
             \o Slice(mem, from + n \div 2, n - n \div 2)

----------------------------------------------------------------------------
(* The BER codec.                                                          *)

RECURSIVE DecodeLoop(_, _, _, _)
DecodeLoop(mem, start, size, i) ==
    IF i = 0 THEN U64Zero
    ELSE U64Add(U64Shl8(DecodeLoop(mem, start, size, i - 1)),
                CharToU64(ByteAt(mem, start + i)))

\* DecodeASN1Int(start, end, &result): `end` is the position one past the
\* last byte of the datagram
DecodeASN1Int(mem, start, end) ==
    LET first == ByteAt(mem, start)
        size == first % 128
    IN  IF first < 128
        THEN [ret |-> 1, result |-> CharToU64(first)]
        ELSE IF size > SizeofResultPointer \/ start + size > end
        THEN [ret |-> 0, result |-> U64Zero]
        ELSE [ret |-> size + 1, result |-> DecodeLoop(mem, start, size, size)]

\* the positions DecodeASN1Int(start, end, &result) reads
DecodeReads(mem, start, end) ==
    LET first == ByteAt(mem, start)
        size == first % 128
    IN  IF first < 128 \/ size > SizeofResultPointer \/ start + size > end
        THEN {start}
        ELSE start..(start + size)

RECURSIVE EncodeLoop(_, _, _)
EncodeLoop(input, i, res) ==
    IF i = 0 THEN res
    ELSE LET byte == input[i]
             r1 == IF res = <<>> /\ byte > 0 THEN <<128 + i>> ELSE res
             r2 == IF r1 # <<>> THEN Append(r1, byte) ELSE r1
         IN  EncodeLoop(input, i - 1, r2)

EncodeASN1Int(input) ==
    IF U64Small(input) >= 0 /\ U64Small(input) < 128
    THEN <<input[1]>>
    ELSE EncodeLoop(input, 8, <<>>)

----------------------------------------------------------------------------
(* The message codec: class SNMPSequence.                                  *)

\* the members of an SNMPSequence whose constructor returned early: the
\* members are never read unless initialized_ holds
Uninitialized ==
    [initialized_ |-> FALSE, thrown |-> FALSE, length_ |-> U64Zero,
     community_ |-> <<>>, community_index_ |-> <<>>, pdu_type_ |-> 0,
     pdu_length_ |-> U64Zero, request_id_ |-> <<0, 0, 0, 0>>, data_ |-> <<>>]

\* std::string::assign with a count above max_size() throws
\* std::length_error, which nothing catches
Thrown == [Uninitialized EXCEPT !.thrown = TRUE]

\* community_.find('@'): the first position holding '@', 0 for npos
FindAt(s) ==
    IF \E i \in 1..Len(s) : s[i] = AtSign
    THEN CHOOSE i \in 1..Len(s) :
             s[i] = AtSign /\ \A j \in 1..(i - 1) : s[j] # AtSign
    ELSE 0

\* SNMPSequence(start, end): mem is the buffer the datagram lies in (what
\* follows the datagram in it included) and size the datagram's byte count
SNMPSequence(mem, size) ==
    LET end == size + 1
        d1 == DecodeASN1Int(mem, 2, end)
        version == 2 + d1.ret
        d2 == DecodeASN1Int(mem, version + Len(kSNMPv2cVersion) + 1, end)
        cstart == version + Len(kSNMPv2cVersion) + 1 + d2.ret
        clen == U64Small(d2.result)
        raw == Slice(mem, cstart, clen)
        at == FindAt(raw)
        community == IF at = 0 THEN raw ELSE SubSeq(raw, 1, at - 1)
        index == IF at = 0 THEN <<>> ELSE SubSeq(raw, at, Len(raw))
        length == IF at = 0 THEN d1.result
                  ELSE U64Sub(d1.result, U64(Len(index)))
        pdu == cstart + clen
        d3 == DecodeASN1Int(mem, pdu + 1, end)
        rid == pdu + 1 + d3.ret
        data == rid + 2 + SizeofRequestId
    IN  IF size < MinPacketSize THEN Uninitialized
        ELSE IF ByteAt(mem, 1) # kSequenceType THEN Uninitialized
        ELSE IF d1.result = U64Zero THEN Uninitialized
        ELSE IF Slice(mem, version, Len(kSNMPv2cVersion)) # kSNMPv2cVersion
        THEN Uninitialized
        ELSE IF ByteAt(mem, version + Len(kSNMPv2cVersion)) # kStringType
        THEN Uninitialized
        ELSE IF d2.result = U64Zero THEN Uninitialized
        \* start + community_length > end, for a length of 2^24 or more:
        \* with the top bit set the pointer wraps below start, the test
        \* passes and assign(start, community_length) throws
        ELSE IF clen < 0
        THEN (IF d2.result[8] >= 128 THEN Thrown ELSE Uninitialized)
        ELSE IF cstart + clen > end THEN Uninitialized
        ELSE IF pdu + MinPduBytes > end THEN Uninitialized
        ELSE IF ByteAt(mem, pdu) \notin
                  {kGetRequestPDUType, kGetNextRequestPDUType,
                   kGetResponsePDUType, kGetBulkRequestPDUType}
        THEN Uninitialized
        ELSE IF ByteAt(mem, rid) # kIntegerType THEN Uninitialized
        ELSE IF ByteAt(mem, rid + 1) # SizeofRequestId THEN Uninitialized
        \* data_.assign(start, end - start) with start past end
        ELSE IF end - data < 0 THEN Thrown
        ELSE [initialized_ |-> TRUE, thrown |-> FALSE, length_ |-> length,
              community_ |-> community, community_index_ |-> index,
              pdu_type_ |-> ByteAt(mem, pdu), pdu_length_ |-> d3.result,
              request_id_ |-> Slice(mem, rid + 2, SizeofRequestId),
              data_ |-> Slice(mem, data, end - data)]

\* size() + EncodeASN1Int(size()).size() - 1
SizeWithOverhead(s) == U64(Len(s) + Len(EncodeASN1Int(U64(Len(s)))) - 1)

set_community(m, community) ==
    [m EXCEPT !.length_ = U64Add(U64Sub(m.length_, SizeWithOverhead(m.community_)),
                                 SizeWithOverhead(community)),
              !.community_ = community]

set_pdu_type(m, pdu_type) == [m EXCEPT !.pdu_type_ = pdu_type]

\* data_[2] = error; in a data_ of fewer than three bytes the write lands
\* outside the contents of the string, which keep their value
set_error(m, error) ==
    IF Len(m.data_) >= 3
    THEN [m EXCEPT !.data_ = [m.data_ EXCEPT ![3] = error]]
    ELSE m

set_data(m, data) ==
    LET l1 == U64Sub(m.length_,
                     U64(Len(m.data_) + Len(EncodeASN1Int(m.pdu_length_)) - 1))
        l2 == U64Add(l1, U64(Len(data)))
        p1 == U64Sub(m.pdu_length_, U64(Len(m.data_)))
        p2 == U64Add(p1, U64(Len(data)))
        l3 == U64Add(l2, U64(Len(EncodeASN1Int(p2)) - 1))
    IN  [m EXCEPT !.length_ = l3, !.pdu_length_ = p2, !.data_ = data]

Serialize(m) ==
    <<kSequenceType>> \o EncodeASN1Int(m.length_) \o kSNMPv2cVersion
        \o <<kStringType>> \o EncodeASN1Int(U64(Len(m.community_)))
        \o m.community_ \o <<m.pdu_type_>> \o EncodeASN1Int(m.pdu_length_)
        \o <<kIntegerType, SizeofRequestId>> \o m.request_id_ \o m.data_

----------------------------------------------------------------------------
(* The cache: CacheKey, CacheValue and the two staleness tests.            *)

\* a key that leaves the community and the community index out, as equality
\* on (host, type, data) alone would
CacheKeyWithoutIndex(host, community, index, request_type, request_data) ==
    [backend_host_ |-> host, community_ |-> <<>>,
     community_index_ |-> <<>>, request_type_ |-> request_type,
     request_data_ |-> request_data]

CacheKey(host, community, community_index, request_type, request_data) ==
    [backend_host_ |-> host, community_ |-> community,
     community_index_ |-> community_index, request_type_ |-> request_type,
     request_data_ |-> request_data]

CacheValue(response_data) == [response_data_ |-> response_data, time_ |-> now]

\* a test that calls an entry stale when its age is exactly cache_ttl_sec_
StaleAtLookupEarly(value) == now >= value.time_ + cache_ttl_sec_

\* a test that still calls an entry fresh at age cache_ttl_sec_ + 1
StaleAtLookupLate(value) == now > value.time_ + cache_ttl_sec_ + 1

\* GetResponse: std::time(nullptr) > cache_entry->second.time() + cache_ttl_sec_
StaleAtLookup(value) == now > value.time_ + cache_ttl_sec_

\* EvictStaleCacheEntries: current_time > entry->second.time() + cache_ttl_sec_
StaleAtSweep(value) == now > value.time_ + cache_ttl_sec_

\* an assignment that stores nothing
InsertNothing(map, key, value) == map

\* cache_[key] = value
Insert(map, key, value) ==
    [k \in DOMAIN map \cup {key} |-> IF k = key THEN value ELSE map[k]]

\* cache_.erase(entry)
Erase(map, key) == [k \in DOMAIN map \ {key} |-> map[k]]

\* the key GetResponse builds for the request it was called with
RequestKey ==
    CacheKey(backend_host, snmp_sequence.community_,
             snmp_sequence.community_index_, snmp_sequence.pdu_type_,
             snmp_sequence.data_)

----------------------------------------------------------------------------
(* The environment: clients, backends and the contents of reused buffers.  *)

\* a well-formed SNMPv2c message with short-form lengths
MkMessage(community, pdu_type, request_id, data) ==
    LET pdu == <<kIntegerType, SizeofRequestId>> \o request_id \o data
        body == kSNMPv2cVersion \o <<kStringType, Len(community)>> \o community
                    \o <<pdu_type, Len(pdu)>> \o pdu
    IN  <<kSequenceType, Len(body)>> \o body

HostR == <<114>>
HostS == <<115>>
IndexA == <<AtSign, 97>>
IndexB == <<AtSign, 98>>
RidOne == <<222, 173, 190, 239>>
RidTwo == <<202, 254, 186, 190>>
\* error-status 0, error-index 0, an empty varbind list; and a second body
DataV == <<2, 1, 0, 2, 1, 0, 48, 0>>
DataW == <<2, 1, 0, 2, 1, 0, 48, 2, 5, 0>>
\* what a backend answers
DataD == <<2, 1, 0, 2, 1, 0, 48, 3, 4, 1, 7>>
DataE == <<2, 1, 5, 2, 1, 1, 48, 0>>
Garbage == <<1, 2, 3, 4>>
GarbageLong == <<71, 65, 82, 66, 65, 71, 69, 33>>

ValidRequests ==
    { MkMessage(HostR, kGetRequestPDUType, RidOne, DataV),
      MkMessage(HostR, kGetRequestPDUType, RidTwo, DataV),
      MkMessage(HostR \o IndexA, kGetRequestPDUType, RidOne, DataV),
      MkMessage(HostR \o IndexB, kGetRequestPDUType, RidOne, DataV),
      MkMessage(HostR, kGetNextRequestPDUType, RidOne, DataV),
      MkMessage(HostR, kGetRequestPDUType, RidOne, DataW),
      \* a request whose PDU ends with the request id
      MkMessage(HostS, kGetBulkRequestPDUType, RidTwo, <<>>) }

\* a request cut short inside its request id
Truncated ==
    SubSeq(MkMessage(HostR, kGetRequestPDUType, RidOne, <<>>), 1, 14)

ClientDatagrams ==
    ValidRequests \cup
    { Garbage, Truncated,
      MkMessage(HostR, kGetResponsePDUType, RidOne, DataV) }

\* what may follow a datagram in the buffer it was received into
Tails == { <<>>, <<4, 1, 1, 1, 1>> }

\* what a backend may answer to the request sent to it: a reply echoing
\* the request id, one with another request id, bytes that are no SNMP
\* message, and a datagram of no bytes
BackendReplies(request) ==
    { MkMessage(request.community_, kGetResponsePDUType,
                request.request_id_, DataD),
      MkMessage(request.community_, kGetResponsePDUType,
                IF request.request_id_ = RidOne THEN RidTwo ELSE RidOne, DataE),
      \* the echoing reply cut short inside its request id
      SubSeq(MkMessage(request.community_, kGetResponsePDUType,
                       request.request_id_, DataD),
             1, 12 + Len(request.community_)),
      GarbageLong,
      <<>> }

----------------------------------------------------------------------------
(* What an observer on the wire reads in a message with short-form         *)
(* lengths; used to state the properties, not by the program.              *)

WireCommunity(b) == SubSeq(b, 8, 7 + b[7])
WirePduType(b) == b[8 + b[7]]
WireRequestId(b) == SubSeq(b, 12 + b[7], 15 + b[7])
WireData(b) == SubSeq(b, 16 + b[7], Len(b))
WireFramed(b) ==
    /\ Len(b) >= MinPacketSize
    /\ Len(b) >= 15 + b[7]
    /\ b[1] = kSequenceType /\ b[2] = Len(b) - 2
    /\ SubSeq(b, 3, 5) = kSNMPv2cVersion /\ b[6] = kStringType
    /\ b[9 + b[7]] = Len(b) - (9 + b[7])
    /\ b[10 + b[7]] = kIntegerType /\ b[11 + b[7]] = SizeofRequestId

\* the part of a community before the first '@', and the rest
WireHost(c) == IF FindAt(c) = 0 THEN c ELSE SubSeq(c, 1, FindAt(c) - 1)
WireIndex(c) == IF FindAt(c) = 0 THEN <<>> ELSE SubSeq(c, FindAt(c), Len(c))

\* what the cache is meant to tell requests apart by
RequestClass(b) ==
    [host |-> WireHost(WireCommunity(b)), index |-> WireIndex(WireCommunity(b)),
     pdu_type |-> WirePduType(b), data |-> WireData(b)]

----------------------------------------------------------------------------
(* The initial state: Start() has bound its socket and started the         *)
(* eviction thread; nothing has been received.                             *)

NoRequest == [host |-> <<>>, index |-> <<>>, pdu_type |-> 0, data |-> <<>>]

NoLookup ==
    [done |-> FALSE, found |-> FALSE, stale |-> FALSE, data |-> <<>>,
     time |-> 0, at |-> 0, origin |-> NoRequest]

\* no call has been made on the codec under test
CodecIdle ==
    /\ called = <<>>
    /\ buffer = [mem |-> <<>>, size |-> 0]
    /\ sequence = Uninitialized
    /\ argument = <<>>
    /\ serialized = <<>>
    /\ uint_input = U64Zero
    /\ encoded = <<>>
    /\ decoded = [ret |-> 0, result |-> U64Zero]

\* no thread has been started
ThreadsIdle ==
    /\ mutex_ = "free"
    /\ thread_at = [start |-> "idle", sweeper |-> "idle", timer |-> "idle"]
    /\ lookup_key = "none"
    /\ cache_entry = "end"
    /\ current_time = 0
    /\ sweep_entry = {}
    /\ inserted = << >>
    /\ before = << >>
    /\ outcome = [kind |-> "none", data |-> "none", at |-> 0]

\* Start() has bound its socket and waits for the first datagram
FrontIdle ==
    /\ pc = "receive"
    /\ packet = <<>>
    /\ snmp_sequence = Uninitialized
    /\ backend_host = <<>>
    /\ num_retries = 0
    /\ response = <<>>
    /\ response_size = 0
    /\ result = <<>>
    /\ backend_sent = <<>>
    /\ client_sent = <<>>
    /\ path = "none"
    /\ lookup = NoLookup
    /\ received = <<>>
    /\ origin = << >>
    /\ answered = << >>
    /\ num_requests = 0

Init ==
    /\ char_signed = TRUE
    /\ now = 0
    /\ cache_ = << >>
    /\ FrontIdle
    /\ CodecIdle
    /\ ThreadsIdle

\* a new iteration of the loop of Start(): the observers start afresh
NewIteration(datagram) ==
    /\ packet' = datagram
    /\ num_requests' = num_requests + 1
    /\ backend_sent' = <<>>
    /\ client_sent' = <<>>
    /\ path' = "none"
    /\ lookup' = NoLookup
    /\ received' = <<>>
    /\ result' = <<>>
    /\ response' = <<>>

\* a rewrite that drops the community index
BackendCommunityNoIndex(m) == backend_community_

\* backend_community_ + snmp_sequence.community_index()
BackendCommunity(m) == backend_community_ \o m.community_index_

Accepted(m) ==
    /\ m.initialized_
    /\ m.pdu_type_ \in {kGetRequestPDUType, kGetNextRequestPDUType,
                        kGetBulkRequestPDUType}

----------------------------------------------------------------------------
(* Start(): the front-end loop.                                            *)

\* receive_from, the constructor of SNMPSequence, and `continue`
Discard ==
    /\ pc = "receive"
    /\ num_requests < MaxRequests
    /\ \E datagram \in ClientDatagrams, tail \in Tails :
         LET m == SNMPSequence(datagram \o tail, Len(datagram))
         IN  /\ ~m.thrown
             /\ ~Accepted(m)
             /\ NewIteration(datagram)
    /\ UNCHANGED <<codec_vars, thread_vars,
                   char_signed, now, cache_, pc, snmp_sequence, backend_host,
                   num_retries, response_size, origin, answered>>

\* receive_from, the constructor, set_community, and the call of GetResponse
Accept ==
    /\ pc = "receive"
    /\ num_requests < MaxRequests
    /\ \E datagram \in ClientDatagrams, tail \in Tails :
         LET m == SNMPSequence(datagram \o tail, Len(datagram))
         IN  /\ ~m.thrown
             /\ Accepted(m)
             /\ NewIteration(datagram)
             /\ backend_host' = m.community_
             /\ snmp_sequence' = set_community(m, BackendCommunity(m))
    /\ pc' = "lookup"
    /\ UNCHANGED <<codec_vars, thread_vars,
                   char_signed, now, cache_, num_retries, response_size,
                   origin, answered>>

\* the constructor throws std::length_error: std::terminate
ParseThrows ==
    /\ pc = "receive"
    /\ num_requests < MaxRequests
    /\ \E datagram \in ClientDatagrams, tail \in Tails :
         /\ SNMPSequence(datagram \o tail, Len(datagram)).thrown
         /\ NewIteration(datagram)
    /\ pc' = "terminated"
    /\ UNCHANGED <<codec_vars, thread_vars,
                   char_signed, now, cache_, snmp_sequence, backend_host,
                   num_retries, response_size, origin, answered>>

\* socket.send_to(GetResponse(...), remote_endpoint, 0, ignored_error)
SendToClient ==
    /\ pc = "send_to_client"
    /\ client_sent' = Append(client_sent, result)
    /\ pc' = "sent"
    /\ UNCHANGED <<codec_vars, thread_vars,
                   char_signed, now, cache_, packet, snmp_sequence,
                   backend_host, num_retries, response, response_size, result,
                   backend_sent, path, lookup, received, origin,
                   answered, num_requests>>

\* the end of the loop body: its locals go out of scope
EndIteration ==
    /\ pc = "sent"
    /\ pc' = "receive"
    /\ packet' = <<>>
    /\ snmp_sequence' = Uninitialized
    /\ backend_host' = <<>>
    /\ num_retries' = 0
    /\ response' = <<>>
    /\ response_size' = 0
    /\ result' = <<>>
    /\ backend_sent' = <<>>
    /\ client_sent' = <<>>
    /\ path' = "none"
    /\ lookup' = NoLookup
    /\ received' = <<>>
    /\ UNCHANGED <<codec_vars, thread_vars,
                   char_signed, now, cache_, origin, answered,
                   num_requests>>

----------------------------------------------------------------------------
(* GetResponse(backend_host, snmp_request).                                *)

\* a fresh-entry branch that leaves the rewritten community in place
ServeFreshNoCommunity(request, host, response_data) ==
    Serialize(set_data(set_pdu_type(request, kGetResponsePDUType),
                       response_data))

\* the fresh-entry branch: the response built from the request and the
\* cached data
ServeFresh(request, host, response_data) ==
    Serialize(set_data(set_pdu_type(set_community(request, host),
                                    kGetResponsePDUType),
                       response_data))

\* the no-response branch: the message whose data is cached
Unavailable(request, host) ==
    set_error(set_pdu_type(set_community(request, host), kGetResponsePDUType),
              kResourceUnavailableError)

\* the parsed-response branch: what is returned for the parsed reply
ForwardParsed(reply, host) == Serialize(set_community(reply, host))

\* while (num_retries <= num_backend_retries_ && response_size == 0)
Again(retries, size) == retries <= num_backend_retries_ /\ size = 0

UnchangedByLookup ==
    UNCHANGED <<codec_vars, thread_vars,
                char_signed, now, packet, snmp_sequence, backend_host,
                num_retries, response, response_size, backend_sent,
                client_sent, received, answered, num_requests>>

\* a hit that stores the entry anew
LookupHitRefreshing ==
    /\ pc = "lookup"
    /\ RequestKey \in DOMAIN cache_
    /\ ~StaleAtLookup(cache_[RequestKey])
    /\ result' = ServeFresh(snmp_sequence, backend_host,
                            cache_[RequestKey].response_data_)
    /\ lookup' = [done |-> TRUE, found |-> TRUE, stale |-> FALSE,
                  data |-> cache_[RequestKey].response_data_,
                  time |-> cache_[RequestKey].time_, at |-> now,
                  origin |-> origin[RequestKey]]
    /\ path' = "hit"
    /\ pc' = "send_to_client"
    /\ cache_' = Insert(cache_, RequestKey,
                        CacheValue(cache_[RequestKey].response_data_))
    /\ UNCHANGED origin
    /\ UnchangedByLookup

\* cache_.find(key) finds a fresh entry: serve it
LookupHit ==
    /\ pc = "lookup"
    /\ RequestKey \in DOMAIN cache_
    /\ ~StaleAtLookup(cache_[RequestKey])
    /\ result' = ServeFresh(snmp_sequence, backend_host,
                            cache_[RequestKey].response_data_)
    /\ lookup' = [done |-> TRUE, found |-> TRUE, stale |-> FALSE,
                  data |-> cache_[RequestKey].response_data_,
                  time |-> cache_[RequestKey].time_, at |-> now,
                  origin |-> origin[RequestKey]]
    /\ path' = "hit"
    /\ pc' = "send_to_client"
    /\ UNCHANGED <<cache_, origin>>
    /\ UnchangedByLookup

\* cache_.find(key) finds a stale entry: erase it and go to the backend
LookupStale ==
    /\ pc = "lookup"
    /\ RequestKey \in DOMAIN cache_
    /\ StaleAtLookup(cache_[RequestKey])
    /\ cache_' = Erase(cache_, RequestKey)
    /\ origin' = Erase(origin, RequestKey)
    /\ lookup' = [done |-> TRUE, found |-> TRUE, stale |-> TRUE,
                  data |-> cache_[RequestKey].response_data_,
                  time |-> cache_[RequestKey].time_, at |-> now,
                  origin |-> origin[RequestKey]]
    /\ pc' = "resolve"
    /\ UNCHANGED <<result, path>>
    /\ UnchangedByLookup

\* cache_.find(key) finds nothing
LookupMiss ==
    /\ pc = "lookup"
    /\ RequestKey \notin DOMAIN cache_
    /\ lookup' = [NoLookup EXCEPT !.done = TRUE, !.at = now]
    /\ pc' = "resolve"
    /\ UNCHANGED <<cache_, origin, result, path>>
    /\ UnchangedByLookup

\* resolver.resolve(query) and socket.open
Resolve ==
    /\ pc = "resolve"
    /\ num_retries' = 0
    /\ response_size' = 0
    /\ pc' = "send_to"
    /\ UNCHANGED <<codec_vars, thread_vars,
                   char_signed, now, cache_, packet, snmp_sequence,
                   backend_host, response, result, backend_sent,
                   client_sent, path, lookup, received, origin, answered,
                   num_requests>>

\* resolver.resolve(query) throws boost::system::system_error: the host
\* is unknown, and nothing catches
ResolveThrows ==
    /\ pc = "resolve"
    /\ pc' = "terminated"
    /\ path' = "unresolved"
    /\ UNCHANGED <<codec_vars, thread_vars,
                   char_signed, now, cache_, packet, snmp_sequence,
                   backend_host, num_retries, response, response_size, result,
                   backend_sent, client_sent, lookup,
                   received, origin, answered, num_requests>>

\* socket.send_to(snmp_request.Serialize(), remote_endpoint)
SendToBackend ==
    /\ pc = "send_to"
    /\ backend_sent' = Append(backend_sent,
                              [to |-> backend_host,
                               bytes |-> Serialize(snmp_sequence)])
    /\ pc' = "await"
    /\ UNCHANGED <<codec_vars, thread_vars,
                   char_signed, now, cache_, packet, snmp_sequence,
                   backend_host, num_retries, response, response_size, result,
                   client_sent, path, lookup, received, origin,
                   answered, num_requests>>

UnchangedByAttempt ==
    UNCHANGED <<codec_vars, thread_vars,
                   char_signed, now, cache_, packet, snmp_sequence, backend_host,
                result, backend_sent, client_sent, path, lookup,
                origin, answered, num_requests>>

\* a datagram arrives: Read(bytes_transferred, ...) runs, the timer thread
\* is joined, ++num_retries, and the loop condition is tested
ReplyArrives ==
    /\ pc = "await"
    /\ \E reply \in BackendReplies(snmp_sequence) :
         /\ response' = reply
         /\ response_size' = Len(reply)
         /\ received' = Append(received, [datagram |-> TRUE, bytes |-> reply])
         /\ pc' = IF Again(num_retries + 1, Len(reply))
                  THEN "send_to" ELSE "respond"
    /\ num_retries' = num_retries + 1
    /\ UnchangedByAttempt

\* no datagram arrives: the timer thread cancels the receive and Read runs
\* with bytes_transferred = 0
AttemptTimesOut ==
    /\ pc = "await"
    /\ response_size' = 0
    /\ received' = Append(received, [datagram |-> FALSE, bytes |-> <<>>])
    /\ num_retries' = num_retries + 1
    /\ pc' = IF Again(num_retries + 1, 0) THEN "send_to" ELSE "respond"
    /\ UNCHANGED response
    /\ UnchangedByAttempt


UnchangedByRespond ==
    UNCHANGED <<codec_vars, thread_vars,
                   char_signed, now, packet, snmp_sequence, backend_host,
                num_retries, response, response_size, backend_sent, client_sent, lookup, received, num_requests>>

\* response_size == 0: cache and serve an unavailable error
RespondUnavailable ==
    /\ pc = "respond"
    /\ response_size = 0
    /\ LET snmp_response == Unavailable(snmp_sequence, backend_host)
       IN  /\ cache_' = Insert(cache_, RequestKey, CacheValue(snmp_response.data_))
           /\ result' = Serialize(set_community(snmp_response, backend_host))
    /\ origin' = Insert(origin, RequestKey, RequestClass(packet))
    /\ answered' = Insert(answered, RequestClass(packet),
                           [time |-> now, request |-> num_requests,
                            parsed |-> FALSE])
    /\ path' = "unavailable"
    /\ pc' = "send_to_client"
    /\ UnchangedByRespond

\* response_size == 0 and data_[2] lies outside data_: a build that checks
\* the index of operator[] aborts
SetErrorAborts ==
    /\ pc = "respond"
    /\ response_size = 0
    /\ Len(snmp_sequence.data_) < 3
    /\ pc' = "terminated"
    /\ UNCHANGED <<cache_, origin, answered, result, path>>
    /\ UnchangedByRespond

\* the response parses: cache its data and serve it
RespondParsed ==
    /\ pc = "respond"
    /\ response_size > 0
    /\ \E tail \in Tails :
         LET snmp_response == SNMPSequence(response \o tail, response_size)
         IN  /\ snmp_response.initialized_
             /\ cache_' = Insert(cache_, RequestKey,
                                 CacheValue(snmp_response.data_))
             /\ result' = ForwardParsed(snmp_response, backend_host)
    /\ origin' = Insert(origin, RequestKey, RequestClass(packet))
    /\ answered' = Insert(answered, RequestClass(packet),
                           [time |-> now, request |-> num_requests,
                            parsed |-> TRUE])
    /\ path' = "parsed"
    /\ pc' = "send_to_client"
    /\ UnchangedByRespond

\* the response does not parse: serve its bytes
RespondRaw ==
    /\ pc = "respond"
    /\ response_size > 0
    /\ \E tail \in Tails :
         LET snmp_response == SNMPSequence(response \o tail, response_size)
         IN  ~snmp_response.initialized_ /\ ~snmp_response.thrown
    /\ result' = SubSeq(response, 1, response_size)
    /\ path' = "raw"
    /\ pc' = "send_to_client"
    /\ UNCHANGED <<cache_, origin, answered>>
    /\ UnchangedByRespond

\* the constructor throws on the response: std::terminate
ResponseParseThrows ==
    /\ pc = "respond"
    /\ response_size > 0
    /\ \E tail \in Tails :
         SNMPSequence(response \o tail, response_size).thrown
    /\ pc' = "terminated"
    /\ UNCHANGED <<cache_, origin, answered, result, path>>
    /\ UnchangedByRespond

----------------------------------------------------------------------------
(* EvictStaleCacheEntries(): one pass over the cache under the mutex. The  *)
(* sleep_for(cache_ttl_sec_) between two passes only spaces them; here a   *)
(* pass may come at any time.                                              *)

Fresh(map) == {k \in DOMAIN map : ~StaleAtSweep(map[k])}

Sweep ==
    /\ pc # "terminated"
    /\ cache_' = [k \in Fresh(cache_) |-> cache_[k]]
    /\ origin' = [k \in Fresh(cache_) |-> origin[k]]
    /\ UNCHANGED <<codec_vars, thread_vars,
                   char_signed, now, pc, packet, snmp_sequence, backend_host,
                   num_retries, response, response_size, result, backend_sent,
                   client_sent, path, lookup, received, answered, num_requests>>

\* a second passes, while the thread of Start() is blocked in receive_from
\* or in io_service_.run(): the steps between two blocking calls take no
\* time on the scale of std::time
Tick ==
    /\ pc \in {"receive", "await"}
    /\ now < MaxTime
    /\ now' = now + 1
    /\ UNCHANGED <<codec_vars, thread_vars,
                   char_signed, cache_, pc, packet, snmp_sequence,
                   backend_host, num_retries, response, response_size, result,
                   backend_sent, client_sent, path, lookup,
                   received, origin, answered, num_requests>>

Next ==
    \/ Discard
    \/ Accept
    \/ ParseThrows
    \/ LookupHit
    \/ LookupStale
    \/ LookupMiss
    \/ Resolve
    \/ ResolveThrows
    \/ SendToBackend
    \/ ReplyArrives
    \/ AttemptTimesOut
    \/ RespondUnavailable
    \/ SetErrorAborts
    \/ RespondParsed
    \/ RespondRaw
    \/ ResponseParseThrows
    \/ SendToClient
    \/ EndIteration
    \/ Sweep
    \/ Tick

Spec == Init /\ [][Next]_vars

----------------------------------------------------------------------------
(* The codec on its own: the constructor, one mutator and Serialize are    *)
(* called on messages of every shape of length field, and EncodeASN1Int    *)
(* and DecodeASN1Int on values of every width, on both kinds of build.     *)

\* the BER length octets of n < 65536, in the shortest form, as a sender
\* writes them
Ber(n) ==
    IF n < 128 THEN <<n>>
    ELSE IF n < 256 THEN <<129, n>>
    ELSE <<130, n \div 256, n % 256>>

\* n bytes b
RECURSIVE Fill(_, _)
Fill(n, b) ==
    IF n = 0 THEN <<>>
    ELSE IF n % 2 = 1 THEN Append(Fill(n - 1, b), b)
    ELSE Fill(n \div 2, b) \o Fill(n \div 2, b)

\* a well-formed SNMPv2c message: every length field holds the count of
\* the bytes that follow it
WellFormed(community, pdu_type, request_id, data) ==
    LET pdu == <<kIntegerType, SizeofRequestId>> \o request_id \o data
        body == kSNMPv2cVersion \o <<kStringType>> \o Ber(Len(community))
                    \o community \o <<pdu_type>> \o Ber(Len(pdu)) \o pdu
    IN  <<kSequenceType>> \o Ber(Len(body)) \o body

\* communities of 1, 60, 127 and 128 bytes, and communities with an index
\* whose host part is shorter and longer than 128 bytes
CodecCommunities ==
    { HostR, HostR \o IndexA, Fill(60, 99), Fill(127, 99), Fill(128, 99),
      Fill(126, 99) \o IndexA, Fill(130, 99) \o IndexA }

\* data that put the PDU length at 6, 14, 66, 127, 128 and 256
CodecData ==
    { <<>>, DataV, Fill(60, 5), Fill(121, 5), Fill(122, 5), Fill(250, 5) }

CodecMessages ==
    { WellFormed(c, kGetRequestPDUType, RidOne, d) :
          c \in CodecCommunities, d \in CodecData }

\* messages that end inside the request id or inside its header
CutShort ==
    { SubSeq(WellFormed(HostR, kGetRequestPDUType, RidOne, <<>>), 1, n) :
          n \in 12..15 }
    \cup { SubSeq(WellFormed(HostR, kGetRequestPDUType, RidOne,
                             Fill(250, 5)), 1, 15) }

\* messages whose outer length or PDU length is not the count of the bytes
\* that follow it: a length too large, a length too small, and bytes after
\* the end of what the lengths announce
Mislabelled ==
    LET m == WellFormed(HostR, kGetRequestPDUType, RidOne, DataV)
        pdu_length == Len(m) - Len(DataV) - SizeofRequestId - 2
    IN  { [m EXCEPT ![2] = @ + 3], [m EXCEPT ![pdu_length] = @ - 2],
          m \o <<5, 5, 5>> }

CodecDatagrams == CodecMessages \cup CutShort \cup Mislabelled \cup {Garbage}

\* the strings given to set_community and to set_data
CommunityArguments == { <<>>, HostS, Fill(127, 112), Fill(128, 112) }
DataArguments == { <<>>, DataD, Fill(121, 7), Fill(122, 7), Fill(250, 7) }

\* uint64_t values: every one-byte value, and for every width values whose
\* highest byte has and has not its top bit set
EncodeInputs ==
    { U64(n) : n \in 0..255 }
    \cup { LET d(i) == IF i = n THEN b ELSE IF i < n THEN low ELSE 0
           IN  <<d(1), d(2), d(3), d(4), d(5), d(6), d(7), d(8)>> :
               n \in 2..8, b \in {1, 127, 128, 255}, low \in {0, 1, 128} }

\* length fields given to DecodeASN1Int: a first byte that announces up to
\* MaxAnnounced length bytes, with none to all of them, and more, inside
\* the range
MaxAnnounced == 10

DecodeInputs ==
    { <<128 + n>> \o Fill(k, 1) : n \in 1..MaxAnnounced, k \in 0..MaxAnnounced }
    \cup { <<5>>, <<127, 1>> }

\* the variables CodecSpec leaves alone
front_vars ==
    <<now, cache_, pc, packet, snmp_sequence, backend_host, num_retries,
      response, response_size, result, backend_sent, client_sent, path,
      lookup, received, origin, answered, num_requests>>

Construct ==
    /\ called = <<>>
    /\ \E datagram \in CodecDatagrams, tail \in Tails :
         /\ buffer' = [mem |-> datagram \o tail, size |-> Len(datagram)]
         /\ sequence' = SNMPSequence(datagram \o tail, Len(datagram))
    /\ called' = <<"SNMPSequence">>
    /\ UNCHANGED <<argument, serialized, uint_input, encoded, decoded>>
    /\ UNCHANGED <<char_signed, front_vars, thread_vars>>

CallSetCommunity ==
    /\ called = <<"SNMPSequence">>
    /\ sequence.initialized_
    /\ \E community \in CommunityArguments :
         /\ sequence' = set_community(sequence, community)
         /\ argument' = community
    /\ called' = Append(called, "set_community")
    /\ UNCHANGED <<buffer, serialized, uint_input, encoded, decoded>>
    /\ UNCHANGED <<char_signed, front_vars, thread_vars>>

CallSetData ==
    /\ called = <<"SNMPSequence">>
    /\ sequence.initialized_
    /\ \E data \in DataArguments :
         /\ sequence' = set_data(sequence, data)
         /\ argument' = data
    /\ called' = Append(called, "set_data")
    /\ UNCHANGED <<buffer, serialized, uint_input, encoded, decoded>>
    /\ UNCHANGED <<char_signed, front_vars, thread_vars>>

CallSerialize ==
    /\ called # <<>>
    /\ called[Len(called)] \in {"SNMPSequence", "set_community", "set_data"}
    /\ sequence.initialized_
    /\ serialized' = Serialize(sequence)
    /\ called' = Append(called, "Serialize")
    /\ UNCHANGED <<buffer, sequence, argument, uint_input, encoded, decoded>>
    /\ UNCHANGED <<char_signed, front_vars, thread_vars>>

CallEncode ==
    /\ called = <<>>
    /\ \E v \in EncodeInputs :
         /\ uint_input' = v
         /\ encoded' = EncodeASN1Int(v)
    /\ called' = <<"EncodeASN1Int">>
    /\ UNCHANGED <<buffer, sequence, argument, serialized, decoded>>
    /\ UNCHANGED <<char_signed, front_vars, thread_vars>>

\* DecodeASN1Int(start, end, &result) on the bytes EncodeASN1Int returned
CallDecode ==
    /\ called = <<"EncodeASN1Int">>
    /\ \E tail \in Tails :
         decoded' = DecodeASN1Int(encoded \o tail, 1, Len(encoded) + 1)
    /\ called' = Append(called, "DecodeASN1Int")
    /\ UNCHANGED <<buffer, sequence, argument, serialized, uint_input, encoded>>
    /\ UNCHANGED <<char_signed, front_vars, thread_vars>>

\* DecodeASN1Int(start, end, &result) on a length field at the start of a
\* range, with whatever the buffer holds past the range
CallDecodeOn ==
    /\ called = <<>>
    /\ \E bytes \in DecodeInputs, tail \in Tails :
         /\ buffer' = [mem |-> bytes \o tail, size |-> Len(bytes)]
         /\ decoded' = DecodeASN1Int(bytes \o tail, 1, Len(bytes) + 1)
    /\ called' = <<"DecodeASN1Int">>
    /\ UNCHANGED <<sequence, argument, serialized, uint_input, encoded>>
    /\ UNCHANGED <<char_signed, front_vars, thread_vars>>

CodecInit ==
    /\ char_signed \in BOOLEAN
    /\ now = 0
    /\ cache_ = << >>
    /\ FrontIdle
    /\ CodecIdle
    /\ ThreadsIdle

CodecNext ==
    \/ Construct
    \/ CallSetCommunity
    \/ CallSetData
    \/ CallSerialize
    \/ CallEncode
    \/ CallDecode
    \/ CallDecodeOn

CodecSpec == CodecInit /\ [][CodecNext]_vars

----------------------------------------------------------------------------
(* The threads and the mutex: the thread of Start(), which runs            *)
(* GetResponse, and the thread of EvictStaleCacheEntries, one step per     *)
(* access to the cache and per blocking call.  Requests are told apart by  *)
(* their cache key only, and response data by the branch that stored it.   *)

\* the clock stops here
MaxClock == 3

Keys == {"k1", "k2"}

\* what a lookup has given
NoOutcome == [kind |-> "none", data |-> "none", at |-> 0]

\* the variables ThreadsSpec leaves alone
rest_vars ==
    <<char_signed, codec_vars, pc, packet, snmp_sequence, backend_host,
      response, result, backend_sent, client_sent, path, lookup, received,
      origin, answered, num_requests>>

\* the thread of Start() moves on
StartGoes(from, to) ==
    /\ thread_at.start = from
    /\ thread_at' = [thread_at EXCEPT !.start = to]

\* the sweeper moves on
SweeperGoes(from, to) ==
    /\ thread_at.sweeper = from
    /\ thread_at' = [thread_at EXCEPT !.sweeper = to]

\* std::lock_guard<std::mutex> lock(mutex_)
Lock(thread) == mutex_ = "free" /\ mutex_' = thread

\* the end of the scope of the lock
Unlock(thread) == mutex_ = thread /\ mutex_' = "free"

\* a sweep that takes an entry of age cache_ttl_sec_ for stale
StaleAtCurrentTimeEarly(value) == current_time >= value.time_ + cache_ttl_sec_

\* EvictStaleCacheEntries: current_time > entry->second.time() + cache_ttl_sec_
StaleAtCurrentTime(value) == current_time > value.time_ + cache_ttl_sec_

\* Start: socket.receive_from returns a request; GetResponse builds its key
ReceiveRequest ==
    /\ StartGoes("receive", "lock_lookup")
    /\ \E k \in Keys : lookup_key' = k
    /\ outcome' = NoOutcome
    /\ num_retries' = 0
    /\ response_size' = 0
    /\ UNCHANGED <<now, cache_, mutex_, cache_entry, current_time,
                   sweep_entry, inserted, before, rest_vars>>

\* GetResponse: the lock of the lookup
LockLookup ==
    /\ StartGoes("lock_lookup", "find")
    /\ Lock("start")
    /\ UNCHANGED <<now, cache_, num_retries, response_size, lookup_key,
                   cache_entry, current_time, sweep_entry, inserted, before,
                   outcome, rest_vars>>

\* auto cache_entry = cache_.find(key)
Find ==
    /\ StartGoes("find", "check")
    /\ cache_entry' = IF lookup_key \in DOMAIN cache_ THEN lookup_key
                      ELSE "end"
    /\ UNCHANGED <<now, cache_, num_retries, response_size, mutex_,
                   lookup_key, current_time, sweep_entry, inserted, before,
                   outcome, rest_vars>>

\* cache_entry == cache_.end(): the scope of the lock ends
CheckMiss ==
    /\ StartGoes("check", "resolve")
    /\ cache_entry = "end"
    /\ Unlock("start")
    /\ outcome' = [kind |-> "miss", data |-> "none", at |-> now]
    /\ UNCHANGED <<now, cache_, num_retries, response_size, lookup_key,
                   cache_entry, current_time, sweep_entry, inserted, before,
                   rest_vars>>

\* the entry is stale: cache_.erase(cache_entry), and the scope ends
CheckStale ==
    /\ StartGoes("check", "unlock_lookup")
    /\ cache_entry # "end"
    /\ StaleAtLookup(cache_[cache_entry])
    /\ cache_' = Erase(cache_, cache_entry)
    /\ cache_entry' = "end"
    /\ outcome' = [kind |-> "stale", data |-> "none", at |-> now]
    /\ UNCHANGED <<now, num_retries, response_size, mutex_, lookup_key,
                   current_time, sweep_entry, inserted, before, rest_vars>>

UnlockLookup ==
    /\ StartGoes("unlock_lookup", "resolve")
    /\ Unlock("start")
    /\ UNCHANGED <<now, cache_, num_retries, response_size, lookup_key,
                   cache_entry, current_time, sweep_entry, inserted, before,
                   outcome, rest_vars>>

\* the entry is fresh: the response is built from it and returned, which
\* ends the scope of the lock
CheckFresh ==
    /\ StartGoes("check", "send_to_client")
    /\ cache_entry # "end"
    /\ ~StaleAtLookup(cache_[cache_entry])
    /\ outcome' = [kind |-> "hit",
                   data |-> cache_[cache_entry].response_data_, at |-> now]
    /\ Unlock("start")
    /\ cache_entry' = "end"
    /\ UNCHANGED <<now, cache_, num_retries, response_size, lookup_key,
                   current_time, sweep_entry, inserted, before, rest_vars>>

\* udp::resolver::resolve and socket.open
ResolveHost ==
    /\ StartGoes("resolve", "send_to")
    /\ UNCHANGED <<now, cache_, num_retries, response_size, mutex_,
                   lookup_key, cache_entry, current_time, sweep_entry,
                   inserted, before, outcome, rest_vars>>

\* socket.send_to, then read_timeout_thread is started and the receive is
\* posted
SendAndPostReceive ==
    /\ thread_at.start = "send_to"
    /\ thread_at.timer = "off"
    /\ thread_at' = [thread_at EXCEPT !.start = "run", !.timer = "lock_wait"]
    /\ UNCHANGED <<now, cache_, num_retries, response_size, mutex_,
                   lookup_key, cache_entry, current_time, sweep_entry,
                   inserted, before, outcome, rest_vars>>

\* TimeoutRead: std::unique_lock<std::mutex> lock(mutex_)
TimerLock ==
    /\ thread_at.timer = "lock_wait"
    /\ thread_at' = [thread_at EXCEPT !.timer = "locked"]
    /\ Lock("timer")
    /\ UNCHANGED <<now, cache_, num_retries, response_size, lookup_key,
                   cache_entry, current_time, sweep_entry, inserted, before,
                   outcome, rest_vars>>

\* cv->wait_for releases the mutex and blocks
TimerWait ==
    /\ thread_at.timer = "locked"
    /\ thread_at' = [thread_at EXCEPT !.timer = "wait"]
    /\ Unlock("timer")
    /\ UNCHANGED <<now, cache_, num_retries, response_size, lookup_key,
                   cache_entry, current_time, sweep_entry, inserted, before,
                   outcome, rest_vars>>

\* backend_timeout_sec_ elapses: wait_for is to return std::cv_status::timeout
TimerTimesOut ==
    /\ thread_at.timer = "wait"
    /\ thread_at' = [thread_at EXCEPT !.timer = "relock_timeout"]
    /\ UNCHANGED <<now, cache_, num_retries, response_size, mutex_,
                   lookup_key, cache_entry, current_time, sweep_entry,
                   inserted, before, outcome, rest_vars>>

\* wait_for wakes up with no notification and before the timeout: it is to
\* return std::cv_status::no_timeout
TimerWakesSpuriously ==
    /\ thread_at.timer = "wait"
    /\ thread_at' = [thread_at EXCEPT !.timer = "relock_no_timeout"]
    /\ UNCHANGED <<now, cache_, num_retries, response_size, mutex_,
                   lookup_key, cache_entry, current_time, sweep_entry,
                   inserted, before, outcome, rest_vars>>

\* wait_for takes the mutex again before it returns
TimerRelock ==
    /\ \E how \in {"timeout", "no_timeout"} :
          /\ thread_at.timer = "relock_" \o how
          /\ thread_at' = [thread_at EXCEPT !.timer = "returned_" \o how]
    /\ Lock("timer")
    /\ UNCHANGED <<now, cache_, num_retries, response_size, lookup_key,
                   cache_entry, current_time, sweep_entry, inserted, before,
                   outcome, rest_vars>>

\* wait_for returned timeout: socket.cancel(), and the scope of the lock ends
TimerCancels ==
    /\ thread_at.timer = "returned_timeout"
    /\ thread_at' = [thread_at EXCEPT !.timer = "cancelled"]
    /\ Unlock("timer")
    /\ UNCHANGED <<now, cache_, num_retries, response_size, lookup_key,
                   cache_entry, current_time, sweep_entry, inserted, before,
                   outcome, rest_vars>>

\* wait_for returned no_timeout: the scope of the lock ends
TimerReturns ==
    /\ thread_at.timer = "returned_no_timeout"
    /\ thread_at' = [thread_at EXCEPT !.timer = "done"]
    /\ Unlock("timer")
    /\ UNCHANGED <<now, cache_, num_retries, response_size, lookup_key,
                   cache_entry, current_time, sweep_entry, inserted, before,
                   outcome, rest_vars>>

\* io_service_.run(): a datagram arrives, Read is called with its size
RunReceives ==
    /\ StartGoes("run", "lock_read")
    /\ response_size' = 1
    /\ UNCHANGED <<now, cache_, num_retries, mutex_, lookup_key,
                   cache_entry, current_time, sweep_entry, inserted, before,
                   outcome, rest_vars>>

\* io_service_.run(): the receive was cancelled, Read is called with 0
RunCancelled ==
    /\ StartGoes("run", "lock_read")
    /\ thread_at.timer = "cancelled"
    /\ response_size' = 0
    /\ UNCHANGED <<now, cache_, num_retries, mutex_, lookup_key,
                   cache_entry, current_time, sweep_entry, inserted, before,
                   outcome, rest_vars>>

\* Read: std::unique_lock<std::mutex> lock(mutex_)
LockRead ==
    /\ StartGoes("lock_read", "notify")
    /\ Lock("start")
    /\ UNCHANGED <<now, cache_, num_retries, response_size, lookup_key,
                   cache_entry, current_time, sweep_entry, inserted, before,
                   outcome, rest_vars>>

\* Read: cv->notify_all(), and the scope of the lock ends
Notify ==
    /\ thread_at.start = "notify"
    /\ thread_at' =
          [thread_at EXCEPT !.start = "join",
                            !.timer = IF @ = "wait" THEN "relock_no_timeout"
                                      ELSE @]
    /\ Unlock("start")
    /\ UNCHANGED <<now, cache_, num_retries, response_size, lookup_key,
                   cache_entry, current_time, sweep_entry, inserted, before,
                   outcome, rest_vars>>

\* read_timeout_thread.join(); ++num_retries; the test of the loop
Join ==
    /\ thread_at.start = "join"
    /\ thread_at.timer \in {"done", "cancelled"}
    /\ num_retries' = num_retries + 1
    /\ thread_at' =
          [thread_at EXCEPT
              !.start = IF /\ num_retries + 1 <= num_backend_retries_
                           /\ response_size = 0
                        THEN "send_to" ELSE "respond",
              !.timer = "off"]
    /\ UNCHANGED <<now, cache_, response_size, mutex_, lookup_key,
                   cache_entry, current_time, sweep_entry, inserted, before,
                   outcome, rest_vars>>

\* response_size == 0, or the response parsed: the lock of the insertion
LockInsert ==
    /\ StartGoes("respond", "insert")
    /\ Lock("start")
    /\ UNCHANGED <<now, cache_, num_retries, response_size, lookup_key,
                   cache_entry, current_time, sweep_entry, inserted, before,
                   outcome, rest_vars>>

\* cache_[key] = CacheValue(snmp_response.data())
InsertResponse ==
    /\ StartGoes("insert", "unlock_insert")
    /\ \E data \in IF response_size = 0 THEN {"unavailable"} ELSE {"reply"} :
          /\ cache_' = Insert(cache_, lookup_key,
                              [response_data_ |-> data, time_ |-> now])
          /\ inserted' = Insert(inserted, lookup_key,
                                [response_data_ |-> data, time_ |-> now])
    /\ outcome' = NoOutcome
    /\ UNCHANGED <<now, num_retries, response_size, mutex_, lookup_key,
                   cache_entry, current_time, sweep_entry, before, rest_vars>>

\* return snmp_response.Serialize(): the scope of the lock ends
UnlockInsert ==
    /\ StartGoes("unlock_insert", "send_to_client")
    /\ Unlock("start")
    /\ UNCHANGED <<now, cache_, num_retries, response_size, lookup_key,
                   cache_entry, current_time, sweep_entry, inserted, before,
                   outcome, rest_vars>>

\* the response did not parse: it is returned without a lock
ReturnRaw ==
    /\ StartGoes("respond", "send_to_client")
    /\ response_size # 0
    /\ UNCHANGED <<now, cache_, num_retries, response_size, mutex_,
                   lookup_key, cache_entry, current_time, sweep_entry,
                   inserted, before, outcome, rest_vars>>

\* Start: socket.send_to(..., remote_endpoint), and the loop goes round
SendResponse ==
    /\ StartGoes("send_to_client", "receive")
    /\ UNCHANGED <<now, cache_, num_retries, response_size, mutex_,
                   lookup_key, cache_entry, current_time, sweep_entry,
                   inserted, before, outcome, rest_vars>>

\* a sweep that goes on without the lock
SweepWithoutLock ==
    /\ SweeperGoes("lock_sweep", "read_time")
    /\ UNCHANGED <<now, cache_, num_retries, response_size, mutex_,
                   lookup_key, cache_entry, current_time, sweep_entry,
                   inserted, before, outcome, rest_vars>>

\* EvictStaleCacheEntries: the lock of the sweep
LockSweep ==
    /\ SweeperGoes("lock_sweep", "read_time")
    /\ Lock("sweeper")
    /\ UNCHANGED <<now, cache_, num_retries, response_size, lookup_key,
                   cache_entry, current_time, sweep_entry, inserted, before,
                   outcome, rest_vars>>

\* const std::time_t current_time = std::time(nullptr); entry = cache_.begin()
ReadTime ==
    /\ SweeperGoes("read_time", "iterate")
    /\ current_time' = now
    /\ sweep_entry' = DOMAIN cache_
    /\ before' = cache_
    /\ UNCHANGED <<now, cache_, num_retries, response_size, mutex_,
                   lookup_key, cache_entry, inserted, outcome, rest_vars>>

\* one round of the for loop, on an entry in the order of the unordered_map
VisitEntry ==
    /\ thread_at.sweeper = "iterate"
    /\ \E k \in sweep_entry :
          /\ sweep_entry' = sweep_entry \ {k}
          /\ cache_' = IF k \in DOMAIN cache_ /\ StaleAtCurrentTime(cache_[k])
                       THEN Erase(cache_, k) ELSE cache_
    /\ UNCHANGED <<now, num_retries, response_size, mutex_, thread_at,
                   lookup_key, cache_entry, current_time, inserted, before,
                   outcome, rest_vars>>

\* entry == cache_.end(): the scope of the lock ends
UnlockSweep ==
    /\ SweeperGoes("iterate", "sleep")
    /\ sweep_entry = {}
    /\ Unlock("sweeper")
    /\ UNCHANGED <<now, cache_, num_retries, response_size, lookup_key,
                   cache_entry, current_time, sweep_entry, inserted, before,
                   outcome, rest_vars>>

\* std::this_thread::sleep_for(std::chrono::seconds(cache_ttl_sec_)) ends
WakeUp ==
    /\ SweeperGoes("sleep", "lock_sweep")
    /\ now >= current_time + cache_ttl_sec_
    /\ UNCHANGED <<now, cache_, num_retries, response_size, mutex_,
                   lookup_key, cache_entry, current_time, sweep_entry,
                   inserted, before, outcome, rest_vars>>

\* a second passes while the thread of Start blocks; the sweeper sleeps
\* cache_ttl_sec_ seconds and takes less than one second more until its
\* next sweep is done
ClockTick ==
    /\ thread_at.start \in {"receive", "run"}
    /\ thread_at.sweeper \in {"sleep", "lock_sweep"}
    /\ now < MaxClock
    /\ now <= current_time + cache_ttl_sec_
    /\ now' = now + 1
    /\ UNCHANGED <<cache_, num_retries, response_size, thread_vars,
                   rest_vars>>

ThreadsInit ==
    /\ char_signed = TRUE
    /\ now = 0
    /\ cache_ = << >>
    /\ FrontIdle
    /\ CodecIdle
    /\ mutex_ = "free"
    /\ thread_at = [start |-> "receive", sweeper |-> "lock_sweep",
                    timer |-> "off"]
    /\ lookup_key = "none"
    /\ cache_entry = "end"
    /\ current_time = 0
    /\ sweep_entry = {}
    /\ inserted = << >>
    /\ before = << >>
    /\ outcome = NoOutcome

ThreadsNext ==
    \/ ReceiveRequest
    \/ LockLookup
    \/ Find
    \/ CheckMiss
    \/ CheckStale
    \/ UnlockLookup
    \/ CheckFresh
    \/ ResolveHost
    \/ SendAndPostReceive
    \/ TimerLock
    \/ TimerWait
    \/ TimerTimesOut
    \/ TimerWakesSpuriously
    \/ TimerRelock
    \/ TimerCancels
    \/ TimerReturns
    \/ RunReceives
    \/ RunCancelled
    \/ LockRead
    \/ Notify
    \/ Join
    \/ LockInsert
    \/ InsertResponse
    \/ UnlockInsert
    \/ ReturnRaw
    \/ SendResponse
    \/ LockSweep
    \/ ReadTime
    \/ VisitEntry
    \/ UnlockSweep
    \/ WakeUp
    \/ ClockTick

ThreadsSpec == ThreadsInit /\ [][ThreadsNext]_vars

\* the steps a thread takes when the scheduler lets it run; the arrival of
\* a datagram, a wake-up without notification and the clock are not among
\* them
StartRuns ==
    \/ LockLookup
    \/ Find
    \/ CheckMiss
    \/ CheckStale
    \/ UnlockLookup
    \/ CheckFresh
    \/ ResolveHost
    \/ SendAndPostReceive
    \/ RunCancelled
    \/ LockRead
    \/ Notify
    \/ Join
    \/ LockInsert
    \/ InsertResponse
    \/ UnlockInsert
    \/ ReturnRaw
    \/ SendResponse

TimerRuns ==
    \/ TimerLock
    \/ TimerWait
    \/ TimerTimesOut
    \/ TimerRelock
    \/ TimerCancels
    \/ TimerReturns

SweeperRuns ==
    \/ LockSweep
    \/ ReadTime
    \/ VisitEntry
    \/ UnlockSweep
    \/ WakeUp

\* the threads under a fair scheduler
ThreadsFair ==
    /\ ThreadsSpec
    /\ WF_vars(StartRuns)
    /\ WF_vars(TimerRuns)
    /\ WF_vars(SweeperRuns)

----------------------------------------------------------------------------
(* Properties.                                                             *)

\* GetResponse has returned: its result is about to be sent, or was sent
Returned == pc \in {"send_to_client", "sent"}

\* the cache lookup of the request being handled has been made
LookedUp == pc \in {"resolve", "send_to", "await", "respond",
                    "send_to_client", "sent"}

\* the retry loop of the request being handled has ended
LoopEnded == pc \in {"respond", "send_to_client", "sent"}

\* an earlier request of the same kind was answered and its answer cached
\* not more than cache_ttl_sec_ before the lookup of this one
AnsweredBefore(parsed) ==
    /\ LookedUp
    /\ RequestClass(packet) \in DOMAIN answered
    /\ answered[RequestClass(packet)].parsed = parsed
    /\ answered[RequestClass(packet)].request < num_requests
    /\ lookup.at <= answered[RequestClass(packet)].time + cache_ttl_sec_

\* C1: the response served from a fresh cache entry carries the request id
\* of the request being served, PDU type GetResponse, the backend host as
\* its community, and the response data stored under the request's key.
C1_FreshHitResponse ==
    path = "hit" =>
        /\ Returned
        /\ WireFramed(result)
        /\ WireRequestId(result) = WireRequestId(packet)
        /\ WirePduType(result) = kGetResponsePDUType
        /\ WireCommunity(result) = backend_host
        /\ WireCommunity(result) = WireHost(WireCommunity(packet))
        /\ WireData(result) = lookup.data
        /\ pc = "send_to_client" =>
               /\ RequestKey \in DOMAIN cache_
               /\ WireData(result) = cache_[RequestKey].response_data_

\* a request with the second request id is served the data the backend
\* returned, from the cache
C1_Witness ==
    /\ path = "hit"
    /\ pc = "sent"
    /\ client_sent = <<MkMessage(HostR, kGetResponsePDUType, RidTwo, DataD)>>

\* C2: once a request was answered from a parsed backend reply, a request
\* with the same host, community index, PDU type and data that is looked up
\* not later than cache_ttl_sec_ after the insertion is served from the
\* cache, with no datagram sent to a backend.
C2_SameRequestServedFromCache ==
    AnsweredBefore(TRUE) => path = "hit" /\ backend_sent = <<>>

\* a request with another request id is served exactly cache_ttl_sec_ after
\* the insertion
C2_Witness ==
    /\ AnsweredBefore(TRUE)
    /\ pc = "sent"
    /\ path = "hit"
    /\ lookup.at = answered[RequestClass(packet)].time + cache_ttl_sec_
    /\ WireRequestId(packet) = RidTwo
    /\ backend_sent = <<>>

\* C3: a request is served only from an entry that was inserted for a
\* request with the same backend host, community index, PDU type and data.
C3_CacheIsolation ==
    /\ path = "hit" => lookup.origin = RequestClass(packet)
    /\ \A k \in DOMAIN cache_ :
           /\ k \in DOMAIN origin
           /\ pc = "lookup" /\ RequestKey = k => origin[k] = RequestClass(packet)

\* a request with a community index is served from the cache
C3_Witness ==
    /\ path = "hit"
    /\ pc = "sent"
    /\ lookup.origin = [host |-> HostR, index |-> IndexA,
                        pdu_type |-> kGetRequestPDUType, data |-> DataV]

\* the request's data with the error status set
WithError(data) == [data EXCEPT ![3] = kResourceUnavailableError]

NothingReceived ==
    /\ received # <<>>
    /\ \A i \in DOMAIN received : ~received[i].datagram

\* what the no-response path does for requests whose data has an offset 2
UnavailableResponseWhenErrorFits ==
    /\ LoopEnded /\ NothingReceived /\ Returned =>
           /\ path = "unavailable"
           /\ WireFramed(result)
           /\ WirePduType(result) = kGetResponsePDUType
           /\ WireCommunity(result) = WireHost(WireCommunity(packet))
           /\ WireRequestId(result) = WireRequestId(packet)
           /\ Len(WireData(packet)) >= 3 =>
                  WireData(result) = WithError(WireData(packet))
           /\ pc = "send_to_client" =>
                  /\ RequestKey \in DOMAIN cache_
                  /\ cache_[RequestKey].response_data_ = WireData(result)
                  /\ cache_[RequestKey].time_ = now
    /\ AnsweredBefore(FALSE) =>
           /\ path = "hit"
           /\ backend_sent = <<>>
           /\ Len(WireData(packet)) >= 3 =>
                  WireData(result) = WithError(WireData(packet))

\* the data carries the error status resourceUnavailable at offset 2
HasError(data) == Len(data) >= 3 /\ data[3] = kResourceUnavailableError

\* C4: when no attempt receives a datagram, the response is a GetResponse
\* with the backend host as community, the request id of the request, and
\* the request's data with 0x0D at offset 2; that data is cached under the
\* request's key, and a same request looked up within cache_ttl_sec_ is
\* served the same 0x0D data with no backend datagram.
C4_UnavailableResponse ==
    /\ UnavailableResponseWhenErrorFits
    /\ LoopEnded /\ NothingReceived /\ Returned => HasError(WireData(result))
    /\ AnsweredBefore(FALSE) /\ Returned => HasError(WireData(result))

\* C5: a request that misses the cache has between 1 and
\* num_backend_retries_ + 1 datagrams sent to its backend, exactly
\* num_backend_retries_ + 1 when no attempt receives a datagram, and none
\* after an attempt that received one.
C5_AttemptsBounded ==
    /\ Len(backend_sent) <= num_backend_retries_ + 1
    /\ LoopEnded /\ path # "hit" => Len(backend_sent) >= 1
    /\ LoopEnded /\ NothingReceived =>
           Len(backend_sent) = num_backend_retries_ + 1
    /\ \A i \in DOMAIN received :
           received[i].datagram => Len(backend_sent) <= i

\* C6: when the backend reply parses, the bytes returned carry the request
\* id of the client's request and the backend host as community, whatever
\* request id the reply carries, and the reply's data is what is cached.
C6_ParsedReplyResponse ==
    path = "parsed" =>
        /\ WireRequestId(result) = WireRequestId(packet)
        /\ WireCommunity(result) = WireHost(WireCommunity(packet))
        /\ pc = "send_to_client" =>
               /\ RequestKey \in DOMAIN cache_
               /\ cache_[RequestKey].response_data_ = WireData(response)

\* the constructor rejects the bytes whatever follows them in the buffer
Unparseable(bytes) ==
    \A tail \in Tails :
        LET m == SNMPSequence(bytes \o tail, Len(bytes))
        IN  ~m.initialized_ /\ ~m.thrown

\* C7: when the backend's reply does not parse, the bytes returned are the
\* bytes received and nothing is cached under the request's key.
C7_UnparseableReplyForwarded ==
    /\ pc = "send_to_client"
    /\ received[Len(received)].datagram
    /\ Unparseable(received[Len(received)].bytes)
    => /\ result = received[Len(received)].bytes
       /\ RequestKey \notin DOMAIN cache_

\* parse steps 1-12 are satisfied by bytes of the datagram (for lengths in
\* the short form)
ParseSteps(b) ==
    /\ Len(b) >= MinPacketSize
    /\ b[1] = kSequenceType
    /\ b[2] # 0
    /\ SubSeq(b, 3, 5) = kSNMPv2cVersion
    /\ b[6] = kStringType
    /\ b[7] # 0
    /\ Len(b) >= 8 + b[7]
    /\ b[8 + b[7]] \in {kGetRequestPDUType, kGetNextRequestPDUType,
                         kGetResponsePDUType, kGetBulkRequestPDUType}
    /\ Len(b) >= 11 + b[7]
    /\ b[10 + b[7]] = kIntegerType /\ b[11 + b[7]] = SizeofRequestId
    /\ Len(b) >= 15 + b[7]

\* the datagram fails parse steps 1-12, or carries a PDU type the front end
\* does not serve
Malformed(b) ==
    \/ ~ParseSteps(b)
    \/ WirePduType(b) \notin {kGetRequestPDUType, kGetNextRequestPDUType,
                              kGetBulkRequestPDUType}

\* C8: a client datagram that does not parse, or whose PDU type is not
\* served, has no effect: nothing is sent, and the loop stays ready to
\* receive the next datagram.
C8_MalformedDropped ==
    packet # <<>> /\ Malformed(packet) =>
        /\ pc = "receive"
        /\ backend_sent = <<>>
        /\ client_sent = <<>>

\* C9: every datagram sent to a backend goes to the host named by the
\* community of the client's request before its '@', carries the
\* community backend_community_ followed by the rest of the client's
\* community, and the client's PDU type, request id and data.
C9_BackendDatagram ==
    \A i \in DOMAIN backend_sent :
        LET sent == backend_sent[i] IN
        /\ sent.to = WireHost(WireCommunity(packet))
        /\ WireCommunity(sent.bytes) =
               backend_community_ \o WireIndex(WireCommunity(packet))
        /\ WirePduType(sent.bytes) = WirePduType(packet)
        /\ WireRequestId(sent.bytes) = WireRequestId(packet)
        /\ WireData(sent.bytes) = WireData(packet)

\* a request with a community index has been forwarded
C9_Witness ==
    /\ pc = "await"
    /\ packet = MkMessage(HostR \o IndexA, kGetRequestPDUType, RidOne, DataV)
    /\ backend_sent =
           <<[to |-> HostR,
              bytes |-> MkMessage(backend_community_ \o IndexA,
                                  kGetRequestPDUType, RidOne, DataV)]>>

\* C10: an entry found with now - inserted_at > cache_ttl_sec_ is removed,
\* the lookup misses and no response is returned without a datagram to the
\* backend; an entry found with now - inserted_at <= cache_ttl_sec_ is
\* served.
C10_StaleNeverServed ==
    /\ path = "hit" => lookup.found /\ lookup.at - lookup.time <= cache_ttl_sec_
    /\ LookedUp /\ lookup.found /\ lookup.at - lookup.time <= cache_ttl_sec_
           => path = "hit"
    /\ LookedUp /\ lookup.found /\ lookup.at - lookup.time > cache_ttl_sec_ =>
           /\ lookup.stale
           /\ path # "hit"
           /\ pc \in {"resolve", "send_to", "await", "respond"} =>
                  RequestKey \notin DOMAIN cache_
           /\ Returned => backend_sent # <<>>

\* a stale entry was found and the response came from the backend
C10_Witness ==
    /\ pc = "sent"
    /\ lookup.stale
    /\ lookup.at - lookup.time = cache_ttl_sec_ + 1
    /\ path = "parsed"
    /\ backend_sent # <<>>

\* C14: within one request the lookup is made before any datagram goes to
\* the backend, and where the reply or the timeout is answered the entry
\* is in the cache before the response goes to the client
C14_LookupThenBackendInsertThenResponse ==
    /\ backend_sent # <<>> => lookup.done
    /\ client_sent # <<>> /\ path \in {"parsed", "unavailable"} =>
          /\ RequestClass(packet) \in DOMAIN answered
          /\ answered[RequestClass(packet)].request = num_requests
          /\ RequestKey \in DOMAIN cache_
          /\ cache_[RequestKey].time_ = now

\* a reply was parsed, stored and then sent on to the client
C14_Witness ==
    /\ pc = "sent"
    /\ path = "parsed"
    /\ Len(backend_sent) = 1
    /\ lookup.done
    /\ RequestKey \in DOMAIN cache_
    /\ Len(client_sent) = 1

\* C15: a request that passed the filter and whose host resolved gets
\* exactly one datagram back, before the next one is received
C15_OneResponsePerRequest ==
    /\ Len(client_sent) <= 1
    /\ pc = "sent" => Len(client_sent) = 1
    /\ backend_sent # <<>> => pc # "terminated"

\* C24: when the host of a request cannot be resolved, nothing is sent to
\* the client for it, no entry is stored for it, and the loop goes on
C24_UnresolvedHostSkipped ==
    path = "unresolved" =>
        /\ client_sent = <<>>
        /\ RequestKey \notin DOMAIN cache_
        /\ pc # "terminated"

\* what holds: nothing is sent and nothing is stored for such a request
UnresolvedHostLeavesNothing ==
    path = "unresolved" =>
        /\ client_sent = <<>>
        /\ backend_sent = <<>>
        /\ RequestKey \notin DOMAIN cache_

\* C25: a hit changes no entry of the cache, and an entry is stored or
\* replaced only under the key of the request in hand, after its lookup
\* found no entry or a stale one, and where no entry is
C25_HitsAndInsertions ==
    [][/\ path' = "hit" /\ path # "hit" => cache_' = cache_
       /\ \A k \in DOMAIN cache_' :
             k \notin DOMAIN cache_ \/ cache_'[k] # cache_[k] =>
                /\ k \notin DOMAIN cache_
                /\ k = RequestKey
                /\ lookup.done
                /\ ~lookup.found \/ lookup.stale]_vars

\* an entry was served in a later second than it was stored in, and it is
\* still as it was stored
C25_Witness ==
    /\ pc = "sent"
    /\ path = "hit"
    /\ lookup.at > lookup.time
    /\ num_requests > 1
    /\ cache_[RequestKey] = [response_data_ |-> lookup.data,
                             time_ |-> lookup.time]

\* C26: where the timeout path applies set_error the data of the request
\* has at least three bytes, as has the data of every request that the
\* constructor and the filter of Start accept
C26_SetErrorInsideData ==
    /\ LookedUp => Len(snmp_sequence.data_) >= 3
    /\ pc = "respond" /\ response_size = 0 =>
          Len(snmp_sequence.data_) >= 3

----------------------------------------------------------------------------
(* Properties of the codec, under CodecSpec.                               *)

\* the byte range the constructor was given
Datagram == SubSeq(buffer.mem, 1, buffer.size)

\* the length a receiver reads at position p of b, and the position after
\* the length field; -1 for a length of three or more octets, which no
\* message here has
BerAt(b, p) ==
    LET first == ByteAt(b, p)
    IN  IF first < 128 THEN [value |-> first, next |-> p + 1]
        ELSE IF first = 129
        THEN [value |-> ByteAt(b, p + 1), next |-> p + 2]
        ELSE IF first = 130
        THEN [value |-> 256 * ByteAt(b, p + 1) + ByteAt(b, p + 2),
              next |-> p + 3]
        ELSE [value |-> -1, next |-> p + 1 + (first - 128)]

\* the outer length field holds the count of the bytes after it
OuterConsistent(b) ==
    BerAt(b, 2).value = Len(b) - (BerAt(b, 2).next - 1)

\* the position of the PDU tag, found through the community length field
PduTagAt(b) ==
    LET c == BerAt(b, BerAt(b, 2).next + Len(kSNMPv2cVersion) + 1)
    IN  c.next + c.value

\* the PDU length field holds the count of the bytes after it
PduConsistent(b) ==
    BerAt(b, PduTagAt(b) + 1).value
        = Len(b) - (BerAt(b, PduTagAt(b) + 1).next - 1)

\* no byte that holds a length was misread: the build's char is unsigned,
\* or every length of the message is below 128
LengthsReadRight == ~char_signed \/ Len(Datagram) < 128

\* C16: the constructor followed by Serialize, with no mutator between
\* them, returns the bytes of every well-formed message it was given,
\* whatever its community and the form of its lengths.
C16_RoundTrip ==
    called # <<>> /\ called[1] = "SNMPSequence" /\ Datagram \in CodecMessages
    => /\ sequence.initialized_
       /\ called = <<"SNMPSequence", "Serialize">> => serialized = Datagram

\* what holds of the round trip: messages without a community index, whose
\* lengths were read right, come back unchanged
RoundTripWithoutIndex ==
    /\ called = <<"SNMPSequence", "Serialize">>
    /\ Datagram \in CodecMessages
    /\ LengthsReadRight
    /\ sequence.community_index_ = <<>>
    => serialized = Datagram

\* C17: for every well-formed message and every string c, after
\* set_community(c) the outer length Serialize writes is the count of the
\* bytes that follow the outer length field.
C17_SetCommunityLength ==
    /\ called # <<>> /\ called[1] = "SNMPSequence"
           /\ Datagram \in CodecMessages
       => sequence.initialized_
    /\ called = <<"SNMPSequence", "set_community", "Serialize">>
           /\ Datagram \in CodecMessages
       => OuterConsistent(serialized)

\* the community the message arrived with
RawCommunity ==
    LET c == BerAt(Datagram, BerAt(Datagram, 2).next
                                 + Len(kSNMPv2cVersion) + 1)
    IN  SubSeq(Datagram, c.next, c.next + c.value - 1)

\* what holds of set_community: the outer length is right when the lengths
\* were read right and splitting the community did not shorten its length
\* field
SetCommunityLengthWithoutShrink ==
    /\ called = <<"SNMPSequence", "set_community", "Serialize">>
    /\ Datagram \in CodecMessages
    /\ LengthsReadRight
    /\ Len(Ber(Len(RawCommunity))) = Len(Ber(Len(WireHost(RawCommunity))))
    => OuterConsistent(serialized)

\* C18: for every well-formed message and every string d, after
\* set_data(d) the outer length and the PDU length Serialize writes are the
\* counts of the bytes that follow the respective length field, also when
\* the PDU length crosses 127/128 in either direction.
C18_SetDataLengths ==
    /\ called # <<>> /\ called[1] = "SNMPSequence"
           /\ Datagram \in CodecMessages
       => sequence.initialized_
    /\ called = <<"SNMPSequence", "set_data", "Serialize">>
           /\ Datagram \in CodecMessages
       => OuterConsistent(serialized) /\ PduConsistent(serialized)

\* what holds of set_data: both lengths are right when the lengths were
\* read right and the community was not split
SetDataLengthsWhenReadRight ==
    /\ called = <<"SNMPSequence", "set_data", "Serialize">>
    /\ Datagram \in CodecMessages
    /\ LengthsReadRight
    /\ Len(Ber(Len(RawCommunity))) = Len(Ber(Len(WireHost(RawCommunity))))
    => OuterConsistent(serialized) /\ PduConsistent(serialized)

\* the number of significant bytes of a uint64_t
Significant(v) ==
    IF v = U64Zero THEN 0
    ELSE CHOOSE n \in 1..8 : v[n] # 0 /\ \A i \in (n + 1)..8 : v[i] = 0

\* the n low bytes of v, most significant first
RECURSIVE BigEndian(_, _)
BigEndian(v, n) == IF n = 0 THEN <<>> ELSE <<v[n]>> \o BigEndian(v, n - 1)

\* the encoding the format prescribes
ExpectedEncoding(v) ==
    IF Significant(v) <= 1 /\ v[1] < 128 THEN <<v[1]>>
    ELSE <<128 + Significant(v)>> \o BigEndian(v, Significant(v))

\* C19: EncodeASN1Int(v) is the prescribed encoding of v, and DecodeASN1Int
\* applied to it stores v and returns the number of bytes of the encoding,
\* for every v, encodings with bytes of 128 and more included.
C19_BerRoundTrip ==
    /\ called # <<>> /\ called[1] = "EncodeASN1Int"
       => encoded = ExpectedEncoding(uint_input)
    /\ called = <<"EncodeASN1Int", "DecodeASN1Int">>
       => decoded.result = uint_input /\ decoded.ret = Len(encoded)

\* what holds of the BER round trip: the encoding is the prescribed one,
\* the count returned is right, and the value is right where no byte of
\* the encoded value is misread as negative
BerRoundTripWhenReadRight ==
    /\ called # <<>> /\ called[1] = "EncodeASN1Int"
       => encoded = ExpectedEncoding(uint_input)
    /\ called = <<"EncodeASN1Int", "DecodeASN1Int">>
       => /\ decoded.ret = Len(encoded)
          /\ ~char_signed \/ (\A i \in 1..8 : uint_input[i] < 128)
             => decoded.result = uint_input

\* parse steps 1-12 are satisfied by bytes of b
StepsInside(b) ==
    LET outer == BerAt(b, 2)
        version == outer.next
        community == BerAt(b, version + Len(kSNMPv2cVersion) + 1)
        tag == community.next + community.value
        pdu == BerAt(b, tag + 1)
    IN  /\ Len(b) >= MinPacketSize
        /\ b[1] = kSequenceType
        /\ outer.value > 0
        /\ Slice(b, version, Len(kSNMPv2cVersion)) = kSNMPv2cVersion
        /\ ByteAt(b, version + Len(kSNMPv2cVersion)) = kStringType
        /\ community.value > 0
        /\ tag <= Len(b)
        /\ b[tag] \in {kGetRequestPDUType, kGetNextRequestPDUType,
                       kGetResponsePDUType, kGetBulkRequestPDUType}
        /\ pdu.next + 1 + SizeofRequestId <= Len(b)
        /\ b[pdu.next] = kIntegerType /\ b[pdu.next + 1] = SizeofRequestId

\* C20: the constructor reports initialized only if parse steps 1-12 are
\* satisfied by bytes inside the byte range; a datagram that ends before
\* the request-id header or inside the request id is reported as not
\* initialized; and the constructor returns for every byte range.
C20_ParseInsideRange ==
    called # <<>> /\ called[1] = "SNMPSequence" =>
        /\ ~sequence.thrown
        /\ sequence.initialized_ => StepsInside(Datagram)
        /\ Datagram \in CutShort => ~sequence.initialized_

\* what holds of the constructor: when it reports initialized, the steps
\* are satisfied by bytes inside the range
InitializedOnlyInside ==
    called # <<>> /\ called[1] = "SNMPSequence" /\ sequence.initialized_
    => StepsInside(Datagram)

\* the length field DecodeASN1Int was called on
Announced == buffer.mem[1] % 128

\* C21: in long form with byte count n, DecodeASN1Int gives result 0 and
\* 0 bytes consumed when n exceeds 8 or when one of the n length bytes lies
\* at or beyond end, and it reads no byte at or beyond end
C21_DecodeRefusesOutOfRange ==
    called = <<"DecodeASN1Int">> /\ buffer.mem[1] >= 128 =>
        /\ Announced > 8 \/ 1 + Announced >= buffer.size + 1 =>
              decoded = [ret |-> 0, result |-> U64Zero]
        /\ \A p \in DecodeReads(buffer.mem, 1, buffer.size + 1) :
              p < buffer.size + 1

\* what holds: the call is refused when n exceeds 8 or when a length byte
\* lies beyond end, and no byte beyond end is read
DecodeRefusesBeyondEnd ==
    called = <<"DecodeASN1Int">> /\ buffer.mem[1] >= 128 =>
        /\ Announced > 8 \/ 1 + Announced > buffer.size + 1 =>
              decoded = [ret |-> 0, result |-> U64Zero]
        /\ \A p \in DecodeReads(buffer.mem, 1, buffer.size + 1) :
              p <= buffer.size + 1

\* C22: for every datagram the constructor reports initialized, those
\* whose length fields disagree with the bytes present included, Serialize
\* writes an outer length and a PDU length that are the counts of the bytes
\* that follow the respective length field
C22_SerializedLengths ==
    called = <<"SNMPSequence", "Serialize">> /\ sequence.initialized_ =>
        OuterConsistent(serialized) /\ PduConsistent(serialized)

\* what holds: Serialize writes right lengths for the messages whose own
\* lengths were right, were read right, and whose community was not
\* shortened across a change of its length field
SerializedLengthsOfWellFormed ==
    /\ called = <<"SNMPSequence", "Serialize">>
    /\ Datagram \in CodecMessages
    /\ LengthsReadRight
    /\ Len(Ber(Len(RawCommunity))) = Len(Ber(Len(WireHost(RawCommunity))))
    => OuterConsistent(serialized) /\ PduConsistent(serialized)

\* what holds: on builds that read the lengths right, a mislabelled
\* datagram comes back with the lengths it arrived with
MislabelledKeepLengths ==
    /\ called = <<"SNMPSequence", "Serialize">>
    /\ Datagram \in Mislabelled
    /\ LengthsReadRight
    => /\ serialized = Datagram
       /\ ~(OuterConsistent(serialized) /\ PduConsistent(serialized))

----------------------------------------------------------------------------
(* Properties of the threads, under ThreadsSpec.                           *)

\* where the next step of the thread of Start reads or writes cache_
AtCache == {"find", "check", "unlock_lookup", "insert", "unlock_insert"}

\* where the thread of Start is in a receive, a resolution or a send
AtNetwork == {"receive", "resolve", "send_to", "run", "send_to_client"}

\* where the sweeper is between the first and the last entry of its loop
InSweep == {"read_time", "iterate"}

\* the entries of a map that a sweep at current_time leaves
Kept(map) ==
    [k \in {e \in DOMAIN map : ~StaleAtCurrentTime(map[e])} |-> map[k]]

\* C11: a lookup of k no later than cache_ttl_sec_ after the last insertion
\* under k hits and gives the data inserted, whatever the sweeper did in
\* between; a sweep removes every entry stale at current_time and leaves
\* every other entry as it was
C11_FreshEntrySurvivesSweeps ==
    /\ /\ outcome.kind # "none"
       /\ lookup_key \in DOMAIN inserted
       /\ outcome.at <= inserted[lookup_key].time_ + cache_ttl_sec_
       => /\ outcome.kind = "hit"
          /\ outcome.data = inserted[lookup_key].response_data_
    /\ thread_at.sweeper = "iterate" =>
          \A k \in DOMAIN Kept(before) :
             k \in DOMAIN cache_ /\ cache_[k] = before[k]
    /\ thread_at.sweeper = "iterate" /\ sweep_entry = {} =>
          cache_ = Kept(before)

\* a sweep at the last fresh second of an entry removed another entry and
\* left this one, and the lookup in that second hit
C11_Witness ==
    /\ outcome.kind = "hit"
    /\ outcome.at = inserted[lookup_key].time_ + cache_ttl_sec_
    /\ thread_at.sweeper = "sleep"
    /\ current_time = outcome.at
    /\ lookup_key \in DOMAIN before
    /\ before[lookup_key] = inserted[lookup_key]
    /\ DOMAIN before \ DOMAIN Kept(before) # {}

\* C12: no entry is in the cache more than 2 * cache_ttl_sec_ after its
\* insertion
C12_NoEntryPastTwiceTtl ==
    \A k \in DOMAIN cache_ : now <= cache_[k].time_ + 2 * cache_ttl_sec_

\* what holds: an entry is gone before the clock reads more than
\* 2 * cache_ttl_sec_ + 1 past its insertion
NoEntryPastTwiceTtlAndOne ==
    \A k \in DOMAIN cache_ : now <= cache_[k].time_ + 2 * cache_ttl_sec_ + 1

\* C13: a thread reads and writes cache_ only with mutex_ held, so that
\* the thread of Start is never in the cache during a sweep, and the thread
\* of Start holds no mutex in a send, a receive or a resolution
C13_MutexDiscipline ==
    /\ thread_at.start \in AtCache => mutex_ = "start"
    /\ thread_at.sweeper \in InSweep => mutex_ = "sweeper"
    /\ ~(thread_at.start \in AtCache /\ thread_at.sweeper \in InSweep)
    /\ thread_at.start \in AtNetwork => mutex_ # "start"
    /\ thread_at.sweeper = "sleep" => mutex_ # "sweeper"
    /\ thread_at.timer = "wait" => mutex_ # "timer"

\* the thread of Start waits for the mutex while the sweeper is half way
\* through the entries
C13_Witness ==
    /\ thread_at.sweeper = "iterate"
    /\ sweep_entry # {}
    /\ sweep_entry # DOMAIN before
    /\ thread_at.start = "lock_lookup"
    /\ mutex_ = "sweeper"

\* C23: with threads scheduled fairly every call of GetResponse returns,
\* whatever the order of the receive handler and the timer thread, with
\* wake-ups without notification, and when the backend never replies
C23_GetResponseReturns ==
    thread_at.start = "lock_lookup" ~> thread_at.start = "send_to_client"

\* the fair threads where wait_for never wakes up without a notification
ThreadsFairWithoutWakeUps ==
    /\ ThreadsInit
    /\ [][ThreadsNext /\ ~TimerWakesSpuriously]_vars
    /\ WF_vars(StartRuns)
    /\ WF_vars(TimerRuns)
    /\ WF_vars(SweeperRuns)

\* C27: when a reply was received, notify_all is not issued before the
\* timer thread waits on the condition variable, so that no timer thread
\* is left to wait for the timeout after the handler has run
C27_NotificationReachesTimer ==
    thread_at.start = "join" /\ response_size # 0 =>
        thread_at.timer \notin {"lock_wait", "locked", "wait"}

====
